---- MODULE Spec2Model ----
(***************************************************************************)
(* COBS / COBS/R streaming decoder (src/analyzers.py).                     *)
(*                                                                         *)
(* Two layers are modelled:                                                *)
(*   - the codec, decode_cobs and decode_cobsr, one loop iteration per     *)
(*     step (SpecCodec, SpecRoundTrip), and as whole functions             *)
(*     (decode_cobs, decode_cobsr) for the accumulator to call;            *)
(*   - the frame accumulator CobsXDecoder.decode, one call per step        *)
(*     (Spec).                                                             *)
(* Python indices are 0-based; TLA+ sequences are 1-based, so the byte     *)
(* in_bytes_mv[idx] of the source is in_bytes[idx + 1] here.               *)
(***************************************************************************)
EXTENDS Integers, Sequences, FiniteSets, TLC

VARIABLES
    \* ---- codec (decode_cobs / decode_cobsr locals) ----
    in_bytes,           \* the buffer handed to the decoder
    payload,            \* round trip only: the payload in_bytes was stuffed from
    dec,                \* the decoder's locals: pc, idx, out_bytes, err
    \* ---- shared configuration ----
    variant,            \* "cobs" (CobsDecoder) or "cobsr" (CobsrDecoder)
    \* ---- accumulator (CobsXDecoder fields) ----
    received,
    frame_start_time,
    frame_end_time,
    number_of_prefix_bytes_after_0_byte,
    \* ---- the accumulator's interface, recorded ----
    events,             \* the byte events decode() was called with, in order
    results,            \* what each call returned, in order (None or a frame)
    now                 \* end time of the last event delivered

codecVars == <<in_bytes, payload, dec>>
accVars == <<received, frame_start_time, frame_end_time,
             number_of_prefix_bytes_after_0_byte, events, results, now>>
vars == <<in_bytes, payload, dec, variant, received, frame_start_time,
          frame_end_time, number_of_prefix_bytes_after_0_byte, events,
          results, now>>

(***************************************************************************)
(* Bounds of the model and constants of the program.                       *)
(***************************************************************************)
MaxLen == 4             \* longest buffer of arbitrary sample bytes
MaxTail == 2            \* longest arbitrary tail after a long chunk
MaxEvents == 5          \* byte events delivered to one accumulator

MaxCode == 255          \* 0xFF, the length code with no implied zero
EncRun == MaxCode - 2    \* 0xFD, the reference encoder's full-run test
PrefixMin == 0
PrefixMax == 10

ZeroMsg == "zero byte found in input"
TruncMsg == "not enough input bytes for length code"

Variants == {"cobs", "cobsr"}

\* Sample of byte values: the delimiter, small length codes, 0xFE and 0xFF.
ByteSample == {0, 1, 2, 3, MaxCode - 1, MaxCode}

SeqsUpTo(S, n) == UNION {[1..m -> S] : m \in 0..n}
Fill(n, b) == [i \in 1..n |-> b]

(***************************************************************************)
(* Python helpers.                                                         *)
(***************************************************************************)
Min(a, b) == IF a < b THEN a ELSE b

\* in_bytes_mv[idx:end] with 0 <= idx: the slice is clipped to the buffer.
Slice(s, idx, end) == SubSeq(s, idx + 1, Min(end, Len(s)))

\* b'\x00' in copy_mv
HasZero(s) == \E i \in 1..Len(s) : s[i] = 0

\* out_bytes = bytearray(); idx = 0
DecEntry == [pc |-> "entry", idx |-> 0, out_bytes |-> <<>>, err |-> ""]

Raise(d, msg) == [d EXCEPT !.pc = "raise", !.err = msg]

\* Mutant of decode_enter: the loop is entered on an empty buffer too.
decode_enter_unguarded(in, d) == [d EXCEPT !.pc = "loop"]

\* if len(in_bytes_mv) > 0: while True: ...   else: return bytes(out_bytes)
decode_enter(in, d) ==
    IF Len(in) > 0 THEN [d EXCEPT !.pc = "loop"] ELSE [d EXCEPT !.pc = "return"]

(***************************************************************************)
(* decode_cobs: one iteration of the while loop.                           *)
(***************************************************************************)
\* Mutants of cobs_boundary: the zero separator appended after a 0xFF chunk
\* too; the truncation test off by one.
cobs_boundary_always_zero(in, d, length, end, out1) ==
    IF end > Len(in)
    THEN Raise([d EXCEPT !.idx = end, !.out_bytes = out1], TruncMsg)
    ELSE IF end < Len(in)
         THEN [d EXCEPT !.idx = end, !.out_bytes = Append(out1, 0)]
         ELSE [d EXCEPT !.pc = "return", !.idx = end, !.out_bytes = out1]

cobs_boundary_ge(in, d, length, end, out1) ==
    IF end >= Len(in)
    THEN Raise([d EXCEPT !.idx = end, !.out_bytes = out1], TruncMsg)
    ELSE [d EXCEPT !.idx = end,
                   !.out_bytes = IF length < MaxCode THEN Append(out1, 0) ELSE out1]

\* if idx > len: raise ...; if idx < len: (if length < 0xFF: append 0) else: break
cobs_boundary(in, d, length, end, out1) ==
    IF end > Len(in)
    THEN Raise([d EXCEPT !.idx = end, !.out_bytes = out1], TruncMsg)
    ELSE IF end < Len(in)
         THEN [d EXCEPT !.idx = end,
                        !.out_bytes = IF length < MaxCode
                                      THEN Append(out1, 0) ELSE out1]
         ELSE [d EXCEPT !.pc = "return", !.idx = end, !.out_bytes = out1]

decode_cobs_iter(in, d) ==
    IF d.idx >= Len(in)
    THEN Raise(d, "IndexError")
    ELSE LET length == in[d.idx + 1]
         IN  IF length = 0
             THEN Raise(d, ZeroMsg)
             ELSE LET idx1 == d.idx + 1
                      end == idx1 + length - 1
                      copy_mv == Slice(in, idx1, end)
                  IN  IF HasZero(copy_mv)
                      THEN Raise([d EXCEPT !.idx = idx1], ZeroMsg)
                      ELSE cobs_boundary(in, d, length, end,
                                         d.out_bytes \o copy_mv)

(***************************************************************************)
(* decode_cobsr: one iteration of the while loop.                          *)
(***************************************************************************)
\* Mutant of cobsr_boundary: the zero separator appended after a 0xFF chunk
\* too.
cobsr_boundary_always_zero(in, d, length, end, out1) ==
    IF end > Len(in)
    THEN [d EXCEPT !.pc = "return", !.idx = end,
                   !.out_bytes = Append(out1, length)]
    ELSE IF end < Len(in)
         THEN [d EXCEPT !.idx = end, !.out_bytes = Append(out1, 0)]
         ELSE [d EXCEPT !.pc = "return", !.idx = end, !.out_bytes = out1]

\* Mutant of cobsr_boundary: the overrun raises, as in decode_cobs.
cobsr_boundary_raises(in, d, length, end, out1) ==
    IF end > Len(in)
    THEN Raise([d EXCEPT !.idx = end, !.out_bytes = out1], TruncMsg)
    ELSE IF end < Len(in)
         THEN [d EXCEPT !.idx = end,
                        !.out_bytes = IF length < MaxCode
                                      THEN Append(out1, 0) ELSE out1]
         ELSE [d EXCEPT !.pc = "return", !.idx = end, !.out_bytes = out1]

\* if idx > len: append(length); break; elif idx < len: ... else: break
cobsr_boundary(in, d, length, end, out1) ==
    IF end > Len(in)
    THEN [d EXCEPT !.pc = "return", !.idx = end,
                   !.out_bytes = Append(out1, length)]
    ELSE IF end < Len(in)
         THEN [d EXCEPT !.idx = end,
                        !.out_bytes = IF length < MaxCode
                                      THEN Append(out1, 0) ELSE out1]
         ELSE [d EXCEPT !.pc = "return", !.idx = end, !.out_bytes = out1]

\* Mutant of decode_cobsr_iter: the chunk is copied without the zero test.
decode_cobsr_iter_unchecked(in, d) ==
    IF d.idx >= Len(in)
    THEN Raise(d, "IndexError")
    ELSE LET length == in[d.idx + 1]
         IN  IF length = 0
             THEN Raise(d, ZeroMsg)
             ELSE LET idx1 == d.idx + 1
                      end == idx1 + length - 1
                      copy_mv == Slice(in, idx1, end)
                  IN  cobsr_boundary(in, d, length, end, d.out_bytes \o copy_mv)

decode_cobsr_iter(in, d) ==
    IF d.idx >= Len(in)
    THEN Raise(d, "IndexError")
    ELSE LET length == in[d.idx + 1]
         IN  IF length = 0
             THEN Raise(d, ZeroMsg)
             ELSE LET idx1 == d.idx + 1
                      end == idx1 + length - 1
                      copy_mv == Slice(in, idx1, end)
                  IN  IF HasZero(copy_mv)
                      THEN Raise([d EXCEPT !.idx = idx1], ZeroMsg)
                      ELSE cobsr_boundary(in, d, length, end,
                                          d.out_bytes \o copy_mv)

decode_iter(v, in, d) ==
    IF v = "cobs" THEN decode_cobs_iter(in, d) ELSE decode_cobsr_iter(in, d)

(***************************************************************************)
(* The whole functions, as the accumulator calls them.                     *)
(***************************************************************************)
RECURSIVE decode_loop(_, _, _)
decode_loop(v, in, d) ==
    IF d.pc = "loop" THEN decode_loop(v, in, decode_iter(v, in, d)) ELSE d

decode_cobs(in) == decode_loop("cobs", in, decode_enter(in, DecEntry))
decode_cobsr(in) == decode_loop("cobsr", in, decode_enter(in, DecEntry))

(***************************************************************************)
(* Reference COBS encoder (the encode of the cobs-python module the        *)
(* decoders were adapted from); the oracle of the round trip.              *)
(***************************************************************************)
\* Position (0-based) of the first zero byte of p at or after start, or Len(p).
NextZero(p, start) ==
    LET Z == {i \in start..(Len(p) - 1) : p[i + 1] = 0}
    IN  IF Z = {} THEN Len(p) ELSE CHOOSE i \in Z : \A j \in Z : i <= j

\* The encoder's for loop, taken one output chunk at a time: from a chunk start
\* search_start_idx the loop runs to the first zero byte, to the first
\* non-zero byte with idx - search_start_idx = 0xFD, or to the end of p.
RECURSIVE cobs_encode_from(_, _, _, _)
cobs_encode_from(p, search_start_idx, final_zero, out) ==
    LET z == NextZero(p, search_start_idx)
    IN  IF z < Len(p) /\ z - search_start_idx <= EncRun
        THEN cobs_encode_from(p, z + 1, TRUE,
                 out \o <<z - search_start_idx + 1>>
                     \o Slice(p, search_start_idx, z))
        ELSE IF search_start_idx + EncRun < Len(p)
             THEN cobs_encode_from(p, search_start_idx + EncRun + 1, FALSE,
                      out \o <<MaxCode>>
                          \o Slice(p, search_start_idx,
                                   search_start_idx + EncRun + 1))
             ELSE IF Len(p) # search_start_idx \/ final_zero
                  THEN out \o <<Len(p) - search_start_idx + 1>>
                           \o Slice(p, search_start_idx, Len(p))
                  ELSE out

cobs_encode(p) == cobs_encode_from(p, 0, TRUE, <<>>)

(***************************************************************************)
(* Codec specifications.                                                   *)
(***************************************************************************)
\* Long buffers: a 0xFE or 0xFF length code, a run around 254 bytes, a tail.
LongInputs ==
    { h \o <<c>> \o Fill(n, MaxCode) \o t :
        h \in SeqsUpTo({1, 2}, 1), c \in {MaxCode - 1, MaxCode},
        n \in {MaxCode - 3, MaxCode - 2, MaxCode - 1},
        t \in SeqsUpTo(ByteSample, MaxTail) }

CodecInputs == SeqsUpTo(ByteSample, MaxLen) \cup LongInputs

\* Payloads: short ones, and ones with a run of non-zero bytes around the
\* 254-byte chunk limit.
Payloads ==
    SeqsUpTo(ByteSample, MaxLen) \cup
    { h \o Fill(n, 1) \o t :
        h \in SeqsUpTo({0, 2}, 1),
        n \in {EncRun, EncRun + 1, EncRun + 2, 2 * (EncRun + 1), 2 * (EncRun + 1) + 1},
        t \in SeqsUpTo(ByteSample, MaxTail) }

AccIdle ==
    /\ received = <<>>
    /\ frame_start_time = <<>>
    /\ frame_end_time = <<>>
    /\ number_of_prefix_bytes_after_0_byte = 0
    /\ events = <<>>
    /\ results = <<>>
    /\ now = 0

InitCodec ==
    /\ in_bytes \in CodecInputs
    /\ payload = <<>>
    /\ variant \in Variants
    /\ dec = DecEntry
    /\ AccIdle

InitRoundTrip ==
    /\ payload \in Payloads
    /\ in_bytes = cobs_encode(payload)
    /\ variant = "cobs"
    /\ dec = DecEntry
    /\ AccIdle

Enter ==
    /\ dec.pc = "entry"
    /\ dec' = decode_enter(in_bytes, dec)
    /\ UNCHANGED <<in_bytes, payload, variant>>
    /\ UNCHANGED accVars

Iterate ==
    /\ dec.pc = "loop"
    /\ dec' = decode_iter(variant, in_bytes, dec)
    /\ UNCHANGED <<in_bytes, payload, variant>>
    /\ UNCHANGED accVars

NextCodec == Enter \/ Iterate

SpecCodec == InitCodec /\ [][NextCodec]_vars
SpecCodecFair == SpecCodec /\ WF_vars(NextCodec)
SpecRoundTrip == InitRoundTrip /\ [][NextCodec]_vars

(***************************************************************************)
(* The frame accumulator: CobsXDecoder.                                    *)
(***************************************************************************)
\* Python's None and a set timestamp.
None == <<>>
Some(t) == <<t>>

\* Byte values delivered to the accumulator: the delimiter and length codes.
AccBytes == {0, 1, 2}

\* Mutant of decode_bytes: CobsrDecoder calls decode_cobs too.
decode_bytes_both_cobs(v, x) == decode_cobs(x)

\* CobsDecoder.decode_bytes / CobsrDecoder.decode_bytes
decode_bytes(v, x) == IF v = "cobs" THEN decode_cobs(x) ELSE decode_cobsr(x)

\* Mutant of note_start_time: the start time is overwritten by every byte.
note_start_time_always(fst, st) == Some(st)

\* if self.frame_start_time is None: self.frame_start_time = frame.start_time
note_start_time(fst, st) == IF fst = None THEN Some(st) ELSE fst

\* Mutant of strip_prefix: the first k bytes are deleted without the length
\* test, which empties a buffer shorter than k.
strip_prefix_unguarded(rec, k) == SubSeq(rec, k + 1, Len(rec))

\* Mutant of strip_prefix: a buffer of exactly k bytes is left unstripped.
strip_prefix_gt(rec, k) ==
    IF Len(rec) > k THEN SubSeq(rec, k + 1, Len(rec)) ELSE rec

\* if len(self.received) >= k: del self.received[:int(k)]
strip_prefix(rec, k) ==
    IF Len(rec) >= k THEN SubSeq(rec, k + 1, Len(rec)) ELSE rec

\* Mutant of reset_received: the buffer survives the delimiter.
reset_received_keep(rec) == rec

\* self.received = []
reset_received(rec) == <<>>

\* Mutant of reset_start_time: the start time is unset at the delimiter.
reset_start_time_none(st) == None

\* self.frame_start_time = frame.start_time   (at the delimiter)
reset_start_time(st) == Some(st)

\* Mutant of note_end_time: only the first byte's end time is kept.
note_end_time_first(fet, et) == IF fet = None THEN Some(et) ELSE fet

\* self.frame_end_time = frame.end_time
note_end_time(fet, et) == Some(et)

\* AnalyzerFrame("Message", start, end, {"data": data})
MessageFrame(st, et, data) ==
    [type |-> "Message", start_time |-> st, end_time |-> et,
     data |-> data, error |-> ""]

\* AnalyzerFrame("Error", start, end, {"error": str(de)})
ErrorFrame(st, et, msg) ==
    [type |-> "Error", start_time |-> st, end_time |-> et,
     data |-> <<>>, error |-> msg]

\* An exception other than DecodeError leaves decode() uncaught.
Uncaught(msg) ==
    [type |-> "Uncaught", start_time |-> None, end_time |-> None,
     data |-> <<>>, error |-> msg]

\* The try/except of decode(): the frame built from decode_bytes' outcome.
frame_of(r, fst, fet) ==
    IF r.pc = "return" THEN MessageFrame(fst, fet, r.out_bytes)
    ELSE IF r.err \in {ZeroMsg, TruncMsg} THEN ErrorFrame(fst, fet, r.err)
    ELSE Uncaught(r.err)

\* CobsXDecoder.decode as a function of the fields a (received,
\* frame_start_time, frame_end_time), the subclass v, the setting k and the
\* byte event ev: the fields after the call, and retval.
\* The delimiter branch (data == b"\0"):
decode_delimiter(a, v, k, ev) ==
    LET fst1 == note_start_time(a.frame_start_time, ev.start_time)
        rec1 == strip_prefix(a.received, k)
        retval == IF rec1 # <<>>
                  THEN <<frame_of(decode_bytes(v, rec1), fst1, a.frame_end_time)>>
                  ELSE None
        raised == retval # None /\ retval[1].type = "Uncaught"
    IN  [received |-> IF raised THEN rec1 ELSE reset_received(rec1),
         frame_start_time |-> IF raised THEN fst1
                              ELSE reset_start_time(ev.start_time),
         frame_end_time |-> a.frame_end_time,
         retval |-> retval]

\* Mutant of decode_other: the byte is put at the front of the buffer.
decode_other_prepend(a, ev) ==
    [received |-> <<ev.data>> \o a.received,
     frame_start_time |-> note_start_time(a.frame_start_time, ev.start_time),
     frame_end_time |-> note_end_time(a.frame_end_time, ev.end_time),
     retval |-> None]

\* The branch of every other byte:
decode_other(a, ev) ==
    [received |-> Append(a.received, ev.data),
     frame_start_time |-> note_start_time(a.frame_start_time, ev.start_time),
     frame_end_time |-> note_end_time(a.frame_end_time, ev.end_time),
     retval |-> None]

decode_call(a, v, k, ev) ==
    IF ev.data = 0 THEN decode_delimiter(a, v, k, ev) ELSE decode_other(a, ev)

\* The accumulator's fields, and the call applied to them.
Fields ==
    [received |-> received, frame_start_time |-> frame_start_time,
     frame_end_time |-> frame_end_time]

Deliver(ev) ==
    LET r == decode_call(Fields, variant, number_of_prefix_bytes_after_0_byte, ev)
    IN  /\ events' = Append(events, ev)
        /\ results' = Append(results, r.retval)
        /\ received' = r.received
        /\ frame_start_time' = r.frame_start_time
        /\ frame_end_time' = r.frame_end_time
        /\ now' = ev.end_time

\* A byte event that follows the last one: start_time >= its end_time.
EventAt(data, gap) ==
    [data |-> data, start_time |-> now + gap, end_time |-> now + gap + 1]

\* CobsXDecoder.decode, called with the delimiter.
Flush ==
    /\ Len(events) < MaxEvents
    /\ \E gap \in {0, 1} : Deliver(EventAt(0, gap))
    /\ UNCHANGED <<number_of_prefix_bytes_after_0_byte, variant>>
    /\ UNCHANGED codecVars

\* CobsXDecoder.decode, called with any other byte.
Accumulate ==
    /\ Len(events) < MaxEvents
    /\ \E data \in AccBytes \ {0}, gap \in {0, 1} : Deliver(EventAt(data, gap))
    /\ UNCHANGED <<number_of_prefix_bytes_after_0_byte, variant>>
    /\ UNCHANGED codecVars

\* CobsXDecoder.__init__, with the setting and the subclass chosen.
Init ==
    /\ received = <<>>
    /\ frame_start_time = None
    /\ frame_end_time = None
    /\ number_of_prefix_bytes_after_0_byte \in PrefixMin..PrefixMax
    /\ variant \in Variants
    /\ events = <<>>
    /\ results = <<>>
    /\ now = 0
    /\ in_bytes = <<>>
    /\ payload = <<>>
    /\ dec = DecEntry

Next == Flush \/ Accumulate

Spec == Init /\ [][Next]_vars

(***************************************************************************)
(* Codec claims.                                                           *)
(***************************************************************************)
Done == dec.pc \in {"return", "raise"}

\* The length code the decoder is about to read, and what follows it.
CurLength == in_bytes[dec.idx + 1]
Rest == Slice(in_bytes, dec.idx + 1, Len(in_bytes))
AtOverrun ==
    /\ dec.pc = "loop"
    /\ dec.idx < Len(in_bytes)
    /\ dec.idx + CurLength > Len(in_bytes)

\* C1: decode_cobs of the reference COBS stuffing of any payload P returns
\* Message(P) exactly, and decode_cobs of the single byte 0x01 returns the
\* empty payload.
C1_RoundTrip ==
    Done =>
        /\ dec.pc = "return"
        /\ dec.out_bytes = payload
        /\ (in_bytes = <<1>> => dec.out_bytes = <<>>)

\* A payload with a zero byte and a 254-byte run was stuffed (with a 0xFF
\* code) and decoded.
C1_Witness ==
    /\ Done
    /\ HasZero(payload)
    /\ Len(payload) > MaxCode
    /\ \E i \in 1..Len(in_bytes) : in_bytes[i] = MaxCode
    /\ dec.idx = Len(in_bytes)

\* C2 as stated: decode_cobsr never returns TruncatedLengthCode, and whenever
\* it reads a length code L whose chunk overruns the buffer it appends the
\* bytes that remain after L, then L, and returns Message.
C2_Original ==
    [][(variant = "cobsr" /\ dec.pc = "loop") =>
          /\ dec'.err # TruncMsg
          /\ AtOverrun =>
                /\ dec'.pc = "return"
                /\ dec'.out_bytes = dec.out_bytes \o Rest \o <<CurLength>>]_vars

\* C2 as amended: the same, for an overrunning length code that no 0x00 byte
\* follows; when a 0x00 byte follows it, decode_cobsr raises ZeroByteInInput.
C2_Salvage ==
    [][(variant = "cobsr" /\ dec.pc = "loop") =>
          /\ dec'.err # TruncMsg
          /\ (AtOverrun /\ ~HasZero(Rest)) =>
                /\ dec'.pc = "return"
                /\ dec'.out_bytes = dec.out_bytes \o Rest \o <<CurLength>>
          /\ (AtOverrun /\ HasZero(Rest)) =>
                /\ dec'.pc = "raise"
                /\ dec'.err = ZeroMsg]_vars

\* decode_cobsr returned after an overrunning length code that followed an
\* earlier chunk: the output ends with the remaining bytes and the code.
C2_Witness ==
    /\ variant = "cobsr"
    /\ dec.pc = "return"
    /\ dec.idx > Len(in_bytes)
    /\ Len(dec.out_bytes) >= 3
    /\ dec.out_bytes[Len(dec.out_bytes)] = 3

\* Walking the length codes from index i (0-based), does some code declare
\* more bytes than remain?
RECURSIVE WalkOverruns(_, _)
WalkOverruns(in, i) ==
    IF i >= Len(in) THEN FALSE
    ELSE LET n == i + in[i + 1]
         IN  IF n > Len(in) THEN TRUE
             ELSE IF n = i THEN FALSE
             ELSE WalkOverruns(in, n)

\* C3: on a buffer with no 0x00 byte decode_cobs returns
\* Error(TruncatedLengthCode) if and only if, walking the length codes from
\* index 0, some code declares more payload bytes than remain; otherwise it
\* returns Message.
C3_TruncatedIff ==
    (variant = "cobs" /\ Done /\ ~HasZero(in_bytes)) =>
        IF WalkOverruns(in_bytes, 0)
        THEN dec.pc = "raise" /\ dec.err = TruncMsg /\ dec.idx > Len(in_bytes)
        ELSE dec.pc = "return"

\* decode_cobs raised the truncation error at a length code that was not the
\* first one.
C3_Witness ==
    /\ variant = "cobs"
    /\ dec.pc = "raise"
    /\ dec.err = TruncMsg
    /\ ~HasZero(in_bytes)
    /\ in_bytes[1] < Len(in_bytes)

\* C4: decode_cobs and decode_cobsr return Error(ZeroByteInInput) if and only
\* if the buffer holds a 0x00 byte, at a length-code position or inside a
\* chunk; a buffer with a zero byte never gives the truncation error; and
\* decode_cobsr returns no other error.
C4_ZeroIff ==
    Done =>
        /\ (dec.pc = "raise" /\ dec.err = ZeroMsg) <=> HasZero(in_bytes)
        /\ (in_bytes = <<0>> => dec.pc = "raise" /\ dec.err = ZeroMsg)
        /\ (variant = "cobsr" /\ dec.pc = "raise") => dec.err = ZeroMsg

\* The zero byte sat inside the chunk of a length code that also overran the
\* buffer (0x03 0x00): the zero-byte error won.
C4_Witness ==
    /\ dec.pc = "raise"
    /\ dec.err = ZeroMsg
    /\ in_bytes = <<3, 0>>
    /\ dec.idx = 1

Calls == 1..Len(events)
IsDelim(i) == events[i].data = 0
Emitted(i) == results[i] # None
FrameAt(i) == results[i][1]

\* The last delimiter before call i (0 when there is none).
PrevDelim(i) ==
    LET D == {j \in 1..(i - 1) : IsDelim(j)}
    IN  IF D = {} THEN 0 ELSE CHOOSE j \in D : \A m \in D : m <= j

\* Bytes buffered for the frame that the delimiter of call i ends.
FrameLen(i) == i - PrevDelim(i) - 1

\* C6 as stated: the start_time of every emitted frame is the start timestamp
\* of the first non-delimiter byte received after the previous delimiter (or
\* after stream start).
C6_Original ==
    \A i \in Calls :
        Emitted(i) =>
            FrameAt(i).start_time = Some(events[PrevDelim(i) + 1].start_time)

\* C6 as amended: the start_time of every emitted frame is the start
\* timestamp of the previous delimiter byte, or, when no delimiter precedes
\* the frame, of the first byte of the stream.
C6_StartTime ==
    \A i \in Calls :
        Emitted(i) =>
            FrameAt(i).start_time =
                IF PrevDelim(i) = 0 THEN Some(events[1].start_time)
                ELSE Some(events[PrevDelim(i)].start_time)

\* A frame was emitted at stream start and another after a delimiter.
C6_Witness ==
    /\ \E i \in Calls : Emitted(i) /\ PrevDelim(i) = 0
    /\ \E i \in Calls : Emitted(i) /\ PrevDelim(i) > 0 /\ FrameLen(i) >= 2

\* C7: the end_time of every emitted frame, for any prefix count, is the end
\* timestamp of the last non-delimiter byte received before the delimiter
\* that triggered the emission.
C7_EndTime ==
    \A i \in Calls :
        Emitted(i) =>
            /\ IsDelim(i)
            /\ i > 1
            /\ ~IsDelim(i - 1)
            /\ FrameAt(i).end_time = Some(events[i - 1].end_time)

\* Two frames were emitted, the second one with several bytes and a prefix
\* count that is not zero.
C7_Witness ==
    /\ number_of_prefix_bytes_after_0_byte > 0
    /\ \E i, j \in Calls : i < j /\ Emitted(i) /\ Emitted(j) /\ FrameLen(j) >= 2

\* The stream so far is n >= 1 non-delimiter bytes and then one delimiter.
OneFrameStream ==
    /\ Len(events) >= 2
    /\ IsDelim(Len(events))
    /\ \A j \in 1..(Len(events) - 1) : ~IsDelim(j)

\* C8: on a fresh accumulator with prefix count 0, n >= 1 non-delimiter bytes
\* and then one delimiter give exactly one frame (Message or Error), returned
\* by the delimiter's call, with the start time of the first byte and the end
\* time of the last one.
C8_OneFrame ==
    (number_of_prefix_bytes_after_0_byte = 0 /\ OneFrameStream) =>
        LET n == Len(events) - 1
        IN  /\ \A j \in 1..n : ~Emitted(j)
            /\ Emitted(n + 1)
            /\ FrameAt(n + 1).type \in {"Message", "Error"}
            /\ FrameAt(n + 1).start_time = Some(events[1].start_time)
            /\ FrameAt(n + 1).end_time = Some(events[n].end_time)

\* Three bytes and a delimiter gave a Message.
C8_Witness ==
    /\ number_of_prefix_bytes_after_0_byte = 0
    /\ OneFrameStream
    /\ Len(events) = 4
    /\ FrameAt(4).type = "Message"

\* C9 as stated: a call returns at most one result, only a delimiter returns
\* one, and every frame with at least one byte buffered between two
\* delimiters yields exactly one result.
C9_Original ==
    \A i \in Calls :
        /\ Len(results[i]) <= 1
        /\ Emitted(i) => IsDelim(i)
        /\ (IsDelim(i) /\ PrevDelim(i) > 0 /\ FrameLen(i) >= 1) => Emitted(i)

\* C9 as amended: a call returns at most one result, and it returns one
\* exactly when its byte is a delimiter that ends a frame whose number n of
\* buffered bytes is at least one and differs from the prefix count k (a
\* frame of exactly k bytes is stripped to nothing and yields no result).
C9_OnePerFrame ==
    /\ Len(results) = Len(events)
    /\ \A i \in Calls :
        /\ Len(results[i]) <= 1
        /\ Emitted(i) <=>
              /\ IsDelim(i)
              /\ FrameLen(i) >= 1
              /\ FrameLen(i) # number_of_prefix_bytes_after_0_byte
        /\ Emitted(i) => FrameAt(i).type \in {"Message", "Error"}

\* With a prefix count k >= 1: a frame of k bytes gave nothing, and a frame of
\* another length between two delimiters gave a result.
C9_Witness ==
    /\ number_of_prefix_bytes_after_0_byte >= 1
    /\ \E i \in Calls :
        /\ IsDelim(i)
        /\ FrameLen(i) = number_of_prefix_bytes_after_0_byte
        /\ ~Emitted(i)
    /\ \E i \in Calls : Emitted(i) /\ PrevDelim(i) > 0

\* C10: a delimiter that arrives when received is empty, or holds exactly the
\* prefix count of bytes, returns nothing; in a run of consecutive delimiters
\* the 2nd and later ones return nothing; and a stream of delimiters only
\* returns nothing at all.
C10_EmptyAbsorbed ==
    /\ [][(IsDelim(Len(events))' /\ Len(events') = Len(events) + 1
             /\ (received = <<>>
                   \/ Len(received) = number_of_prefix_bytes_after_0_byte))
            => ~Emitted(Len(events))']_vars
    /\ [](\A i \in Calls : (i > 1 /\ IsDelim(i) /\ IsDelim(i - 1)) => ~Emitted(i))
    /\ []((\A i \in Calls : IsDelim(i)) => (\A i \in Calls : ~Emitted(i)))

\* A frame was emitted and then two more delimiters followed at once.
C10_Witness ==
    /\ Len(events) >= 4
    /\ Emitted(Len(events) - 2)
    /\ IsDelim(Len(events) - 1)
    /\ IsDelim(Len(events))
    /\ ~Emitted(Len(events))

\* The bytes buffered for the frame that the delimiter of call i ends, in
\* the order they arrived.
FrameBytes(i) == [m \in 1..FrameLen(i) |-> events[PrevDelim(i) + m].data]

\* What the codec is to be given at the delimiter of call i.
ExpectedBuffer(i) ==
    LET k == number_of_prefix_bytes_after_0_byte
        b == FrameBytes(i)
    IN  IF Len(b) >= k THEN [m \in 1..(Len(b) - k) |-> b[k + m]] ELSE b

\* The frame of call i carries the outcome r of a decode.
CarriesOutcome(i, r) ==
    IF r.pc = "return"
    THEN FrameAt(i).type = "Message" /\ FrameAt(i).data = r.out_bytes
    ELSE FrameAt(i).type = "Error" /\ FrameAt(i).error = r.err

\* C11: at a delimiter with prefix count k, when at least k bytes are
\* buffered exactly the first k are removed and the codec decodes the rest in
\* their order; when fewer than k are buffered none is removed and the codec
\* decodes the whole buffer. (When nothing is left the codec is not called
\* and nothing is returned.)
C11_PrefixStrip ==
    \A i \in Calls :
        IsDelim(i) =>
            IF ExpectedBuffer(i) = <<>>
            THEN ~Emitted(i)
            ELSE /\ Emitted(i)
                 /\ CarriesOutcome(i, decode_bytes(variant, ExpectedBuffer(i)))

\* k = 2 and three bytes 2, 2, 1 were buffered: only the last one was decoded
\* (to the empty payload; the whole buffer would decode to 0x02 0x00).
C11_Witness ==
    /\ number_of_prefix_bytes_after_0_byte = 2
    /\ Len(events) = 4
    /\ IsDelim(4)
    /\ FrameBytes(4) = <<2, 2, 1>>
    /\ Emitted(4)
    /\ FrameAt(4).type = "Message"
    /\ FrameAt(4).data = <<>>

\* The last call was made with a delimiter.
AfterDelimiter == Len(events) > 0 /\ IsDelim(Len(events))

\* C12: after every processed delimiter, whether or not a frame was emitted,
\* frame_end_time is unset (None).
C12_EndTimeUnset == AfterDelimiter => frame_end_time = None

\* The fields of a newly constructed accumulator.
FreshFields ==
    [received |-> <<>>, frame_start_time |-> None, frame_end_time |-> None]

\* What call i returns when the events m..i of the stream are delivered, in
\* order, to an accumulator whose fields are a.
RECURSIVE ReplayFrom(_, _, _)
ReplayFrom(a, m, i) ==
    LET r == decode_call(a, variant, number_of_prefix_bytes_after_0_byte,
                         events[m])
    IN  IF m = i THEN r.retval
        ELSE ReplayFrom([received |-> r.received,
                         frame_start_time |-> r.frame_start_time,
                         frame_end_time |-> r.frame_end_time], m + 1, i)

\* C13: frame independence. What the accumulator returns after a delimiter
\* is a function of the events from that delimiter on alone: it is what a
\* new accumulator returns when given only those events. Hence two streams
\* that agree from some delimiter on, whatever came before it, return the
\* same frames (kind, payload or reason, start_time, end_time) for every
\* call after that delimiter.
C13_FrameIndependence ==
    \A j \in Calls :
        IsDelim(j) =>
            \A i \in (j + 1)..Len(events) :
                results[i] = ReplayFrom(FreshFields, j, i)

\* A frame that failed to decode was followed by a frame that was emitted.
C13_Witness ==
    \E j, i \in Calls :
        /\ j < i
        /\ Emitted(j)
        /\ FrameAt(j).type = "Error"
        /\ Emitted(i)
        /\ FrameLen(i) >= 2

\* C14: after every processed delimiter, whether a Message, an Error or
\* nothing was returned, received is empty and frame_start_time is that
\* delimiter's start timestamp.
C14_ResetAtDelimiter ==
    AfterDelimiter =>
        /\ received = <<>>
        /\ frame_start_time = Some(events[Len(events)].start_time)

\* A Message and an Error were returned, and then a delimiter that returned
\* nothing was processed.
C14_Witness ==
    /\ AfterDelimiter
    /\ ~Emitted(Len(events))
    /\ \E i \in Calls : Emitted(i) /\ FrameAt(i).type = "Message"
    /\ \E i \in Calls : Emitted(i) /\ FrameAt(i).type = "Error"

\* The event of the call a step makes.
Delivered == events'[Len(events')]

\* C15: a call with a non-delimiter byte returns no result, appends exactly
\* that byte at the end of received, sets frame_end_time to the byte's end
\* timestamp, and sets frame_start_time to the byte's start timestamp only
\* when it was unset.
C15_Accumulation ==
    [][(Len(events') = Len(events) + 1 /\ Delivered.data # 0) =>
          /\ results' = Append(results, None)
          /\ received' = Append(received, Delivered.data)
          /\ frame_end_time' = Some(Delivered.end_time)
          /\ frame_start_time' = IF frame_start_time = None
                                 THEN Some(Delivered.start_time)
                                 ELSE frame_start_time]_vars

\* The last call appended a byte to a buffer that held two different bytes,
\* and the start time is an earlier event's.
C15_Witness ==
    /\ Len(events) >= 3
    /\ ~IsDelim(Len(events))
    /\ Len(received) = 3
    /\ received[1] # received[3]
    /\ received[3] = events[Len(events)].data
    /\ frame_end_time = Some(events[Len(events)].end_time)
    /\ frame_start_time # Some(events[Len(events)].start_time)

(***************************************************************************)
(* Codec claims, continued.                                                *)
(***************************************************************************)
\* The chunk of the length code the decoder is about to read, and the index
\* just past it.
CurChunk == Slice(in_bytes, dec.idx + 1, dec.idx + CurLength)
CurEnd == dec.idx + CurLength
CopiesChunk ==
    /\ dec.pc = "loop"
    /\ dec.idx < Len(in_bytes)
    /\ CurLength # 0
    /\ ~HasZero(CurChunk)

\* C16: in both decoders, after the chunk of a length code L is copied, a
\* single 0x00 is appended if and only if more input remains and L < 0xFF;
\* after a 0xFF chunk with more input nothing is appended and the loop goes
\* on; when the chunk ends exactly at the end of the input decoding stops
\* with no zero appended and no error (0x03 0x01 0x02 gives 0x01 0x02).
C16_Separator ==
    [][CopiesChunk =>
          /\ (dec'.out_bytes = dec.out_bytes \o CurChunk \o <<0>>)
                <=> (CurEnd < Len(in_bytes) /\ CurLength < MaxCode)
          /\ CurEnd < Len(in_bytes) =>
                /\ dec'.pc = "loop"
                /\ dec'.idx = CurEnd
                /\ CurLength = MaxCode =>
                      dec'.out_bytes = dec.out_bytes \o CurChunk
          /\ CurEnd = Len(in_bytes) =>
                /\ dec'.pc = "return"
                /\ dec'.out_bytes = dec.out_bytes \o CurChunk
          /\ in_bytes = <<3, 1, 2>> =>
                /\ dec'.pc = "return"
                /\ dec'.out_bytes = <<1, 2>>]_vars

\* A 0xFF chunk of 254 bytes was copied with more input after it: no zero was
\* appended and the loop goes on.
C16_Witness ==
    /\ dec.pc = "loop"
    /\ in_bytes[1] = MaxCode
    /\ dec.idx = MaxCode
    /\ dec.out_bytes = SubSeq(in_bytes, 2, MaxCode)

\* C17: received never holds a 0x00 byte, so the accumulator never returns
\* an Error with reason 'zero byte found in input'; the COBS/R accumulator
\* returns no Error frame at all, and every Error of the COBS accumulator has
\* reason 'not enough input bytes for length code'.
C17_NoZeroError ==
    /\ ~HasZero(received)
    /\ \A i \in Calls :
        Emitted(i) =>
            /\ ~HasZero(FrameBytes(i))
            /\ FrameAt(i).error # ZeroMsg
            /\ variant = "cobsr" => FrameAt(i).type = "Message"
            /\ FrameAt(i).type = "Error" =>
                  variant = "cobs" /\ FrameAt(i).error = TruncMsg

\* The COBS/R accumulator returned a Message for the one-byte frame 0x02, a
\* frame decode_cobs rejects as truncated.
C17_Witness ==
    /\ variant = "cobsr"
    /\ number_of_prefix_bytes_after_0_byte = 0
    /\ \E i \in Calls :
        /\ Emitted(i)
        /\ FrameBytes(i) = <<2>>
        /\ FrameAt(i).type = "Message"
        /\ FrameAt(i).data = <<2>>

\* C18: on every buffer for which decode_cobs returns Message(P),
\* decode_cobsr returns Message(P); for which decode_cobs returns
\* Error(ZeroByteInInput), decode_cobsr returns the same error; and where
\* decode_cobs returns Error(TruncatedLengthCode), decode_cobsr returns a
\* Message: the two differ on those buffers only.
C18_VariantsAgree ==
    (variant = "cobs" /\ Done) =>
        LET r == decode_cobsr(in_bytes)
        IN  /\ dec.pc = "return" =>
                  r.pc = "return" /\ r.out_bytes = dec.out_bytes
            /\ (dec.pc = "raise" /\ dec.err = ZeroMsg) =>
                  r.pc = "raise" /\ r.err = ZeroMsg
            /\ (dec.pc = "raise" /\ dec.err = TruncMsg) => r.pc = "return"
            /\ (r.pc # dec.pc \/ r.out_bytes # dec.out_bytes \/ r.err # dec.err)
                  => (dec.pc = "raise" /\ dec.err = TruncMsg)

\* decode_cobs returned a Message for a long buffer with a 0xFF chunk and
\* more chunks after it.
C18_Witness ==
    /\ variant = "cobs"
    /\ dec.pc = "return"
    /\ Len(in_bytes) > MaxCode + 1
    /\ in_bytes[1] = MaxCode
    /\ Len(dec.out_bytes) >= MaxCode

====
